---- MODULE Spec2Model ----
(***************************************************************************)
(* Document-batch -> timeline pipeline of the clinic backend.              *)
(*                                                                         *)
(*   routes    src/backend/simple_backend/app/routes/documents.py          *)
(*   storage   src/backend/simple_backend/app/services/mongo_service.py    *)
(*             src/simple_backend/app/services/mongodb_storage.py          *)
(*   synthesis src/backend/simple_backend/app/services/timeline_service.py *)
(*   extractor src/simple_backend/app/services/ai_service.py               *)
(*                                                                         *)
(* Every request is a coroutine.  A step of the model is one storage       *)
(* operation taking effect together with the handler's local code up to    *)
(* the point where the next storage operation is awaited; other requests   *)
(* may run between two steps.  extract_prescription and                    *)
(* generate_comprehensive_timeline contain no await of their own (the      *)
(* genai client is called synchronously), so they run inside one step.     *)
(***************************************************************************)
EXTENDS Integers, Sequences, FiniteSets, TLC

\* ------------------------------------------------------------------ bounds
\* Number of requests served in one run of Spec.
NumReq == 3
\* Number of requests that may be in flight at the same time.
MaxConc == 2
\* Number of requests served in one run of SeqSpec (one at a time).
SeqReq == 4
\* Longest document list handed to generate_comprehensive_timeline in GenSpec.
MaxGenDocs == 2
\* JqSpec: requests served and handler threads running at once.
JqReq == 4
JqConc == 2
\* MqSpec: requests served and handlers in flight at once.
MqReq == 4
MqConc == 2
\* NtSpec: number of requests to the notes routes, number of created_at values
NtReq == 5
NtStamps == 3

\* ------------------------------------------------------------ Python values
\* A Python value as the code sees it: None, a dict (with the keys it has),
\* or a list.  The fields not in keys are absent from the dict; they carry
\* a default here only so that all values have one shape.
PyDefaults ==
    [ k |-> "none", keys |-> {},
      medications |-> <<>>, doctor_name |-> "",
      timeline_events |-> <<>>, current_medications |-> <<>>,
      chronic_conditions |-> <<>>, allergies |-> <<>>,
      summary |-> <<>>, error |-> "", patient_id |-> "", batch_id |-> <<>> ]

None == PyDefaults

Dict(fields) == ([k |-> "map", keys |-> DOMAIN fields] @@ fields) @@ PyDefaults

EmptyDict == [PyDefaults EXCEPT !.k = "map"]

List == [PyDefaults EXCEPT !.k = "list"]

\* bool(v): None and {} are falsy, a non-empty dict and the (non-empty) list
\* are truthy.
Truthy(v) == \/ v.k = "map" /\ v.keys # {}
             \/ v.k = "list"

\* v.get(key, default) on a dict v.
Get(v, key, default) == IF key \in v.keys THEN v[key] ELSE default

\* A medications entry: a map {"name": ...} or a bare string.
MedMap(name) == [ismap |-> TRUE, name |-> name]

MedStr(name) == [ismap |-> FALSE, name |-> name]

\* ------------------------------------------------------------------- texts
\* A text is a sequence of lexical chunks: the code fence (three backticks),
\* the word json, white space, and chunks that each spell one JSON value or
\* plain prose.
FENCE == "fence"

IsSpace(t) == t \in {"NL", "SP"}

RECURSIVE LStrip(_)
LStrip(text) ==
    IF text # <<>> /\ IsSpace(Head(text)) THEN LStrip(Tail(text)) ELSE text

RECURSIVE RStrip(_)
RStrip(text) ==
    IF text # <<>> /\ IsSpace(text[Len(text)])
    THEN RStrip(SubSeq(text, 1, Len(text) - 1))
    ELSE text

\* str.strip()
Strip(text) == RStrip(LStrip(text))

\* str.startswith(tok)
StartsWith(text, tok) == text # <<>> /\ Head(text) = tok

\* Index of the first occurrence of tok in text, Len(text) + 1 when absent.
RECURSIVE IndexOf(_, _)
IndexOf(text, tok) ==
    IF text = <<>> \/ Head(text) = tok THEN 1 ELSE 1 + IndexOf(Tail(text), tok)

\* text.split(fence)[1]: what stands between the first and the second fence
\* (to the end of the text when there is no second fence).
SplitSecond(text) ==
    LET rest == SubSeq(text, IndexOf(text, FENCE) + 1, Len(text))
    IN  SubSeq(rest, 1, IndexOf(rest, FENCE) - 1)

\* "Clean markdown if present".
CleanMarkdown(text) ==
    IF StartsWith(text, FENCE)
    THEN LET inner == SplitSecond(text)
         IN  Strip(IF StartsWith(inner, "json") THEN Tail(inner) ELSE inner)
    ELSE text

\* The JSON values the chunks spell.
RxGood == Dict([doctor_name |-> "Dr", medications |-> <<MedMap("A")>>])

RxStrMeds == Dict([medications |-> <<MedStr("A")>>])

TlFull ==
    Dict([timeline_events |-> <<"llm_event">>,
          current_medications |-> <<"A">>,
          chronic_conditions |-> <<>>,
          allergies |-> <<>>,
          summary |-> <<"llm summary">>])

\* A timeline object that carries a patient_id key of its own.
TlOther == Dict([timeline_events |-> <<"llm_event">>,
                 current_medications |-> <<>>,
                 chronic_conditions |-> <<>>,
                 allergies |-> <<>>,
                 summary |-> <<"llm summary">>,
                 patient_id |-> "P2"])

\* A timeline object whose summary string contains a code fence.
TlFenced == Dict([timeline_events |-> <<"llm_event">>,
                  current_medications |-> <<>>,
                  chronic_conditions |-> <<>>,
                  allergies |-> <<>>,
                  summary |-> <<"llm summary", FENCE>>])

\* The text of TlFenced: the fence stands inside one of its strings.
TlFencedText == <<"tl_open", FENCE, "tl_close">>

JsonTable ==
    [ rx_good |-> RxGood, rx_strmeds |-> RxStrMeds, obj_empty |-> EmptyDict,
      tl_full |-> TlFull, tl_other |-> TlOther, arr |-> List ]

\* json.loads(text): white space around the value is accepted; anything but
\* exactly one JSON value raises JSONDecodeError.
JsonLoads(text) ==
    LET s == Strip(text)
    IN  IF Len(s) = 1 /\ s[1] \in DOMAIN JsonTable
        THEN [ok |-> TRUE, val |-> JsonTable[s[1]]]
        ELSE IF s = TlFencedText
        THEN [ok |-> TRUE, val |-> TlFenced]
        ELSE [ok |-> FALSE, val |-> None]

\* The outcome of one call of the genai client: it raises, or returns a text.
Raises == [raised |-> TRUE, text |-> <<>>]

Returns(text) == [raised |-> FALSE, text |-> text]

\* No call of the client was made.
NoCall == [raised |-> FALSE, text |-> <<"no call">>]

\* ------------------------------------------------------------ extraction
ExtractFallback(err) ==
    Dict([doctor_name |-> "Unknown", medications |-> <<>>, error |-> err])

\* extract_prescription: every failure inside it (the client raising, text
\* that is no JSON, JSON that is no object) ends in the fallback dict; it
\* never raises and never returns None.
extract_prescription(out) ==
    IF out.raised THEN ExtractFallback("call")
    ELSE LET parsed == JsonLoads(CleanMarkdown(Strip(out.text)))
         IN  IF ~parsed.ok THEN ExtractFallback("json")
             ELSE IF parsed.val.k # "map" THEN ExtractFallback("attr")
             ELSE parsed.val

\* -------------------------------------------------------------- synthesis
\* "Combine all extracted data": the payloads of the documents whose
\* extracted_data is truthy, in the order of the list.
RECURSIVE all_prescriptions(_)
all_prescriptions(docs) ==
    IF docs = <<>> THEN <<>>
    ELSE (IF Truthy(Head(docs).extracted_data)
          THEN <<Head(docs).extracted_data>> ELSE <<>>)
         \o all_prescriptions(Tail(docs))

\* The logging loop over all_prescriptions stands before the try block: it
\* raises AttributeError on a payload that is no dict, or on a medications
\* entry that is no dict.
PrintRaises(prescs) ==
    \E i \in 1..Len(prescs) :
        \/ prescs[i].k # "map"
        \/ \E j \in 1..Len(Get(prescs[i], "medications", <<>>)) :
               ~Get(prescs[i], "medications", <<>>)[j].ismap

\* One event of the fallback timeline, for the document at position i.
FallbackEvent(i, doc) ==
    [ description |-> i,
      medications |-> Get(doc.extracted_data, "medications", <<>>),
      doctor |-> Get(doc.extracted_data, "doctor_name", "") ]

RECURSIVE FallbackEvents(_, _)
FallbackEvents(docs, i) ==
    IF i > Len(docs) THEN <<>>
    ELSE (IF Truthy(docs[i].extracted_data)
          THEN <<FallbackEvent(i, docs[i])>> ELSE <<>>)
         \o FallbackEvents(docs, i + 1)

\* doc.get('extracted_data', {}).get(...) inside the except block raises when
\* a truthy payload is no dict.
FallbackRaises(docs) ==
    \E i \in 1..Len(docs) :
        Truthy(docs[i].extracted_data) /\ docs[i].extracted_data.k # "map"

\* A fallback that fills current_medications from the prescriptions instead
\* of leaving it empty.
FallbackKeepsMedications(docs, err) ==
    Dict([timeline_events |-> FallbackEvents(docs, 1),
          current_medications |-> all_prescriptions(docs),
          chronic_conditions |-> <<>>,
          allergies |-> <<>>,
          summary |-> <<"documents on file", Len(docs)>>,
          error |-> err])

Fallback(docs, err) ==
    Dict([timeline_events |-> FallbackEvents(docs, 1),
          current_medications |-> <<>>,
          chronic_conditions |-> <<>>,
          allergies |-> <<>>,
          summary |-> <<"documents on file", Len(docs)>>,
          error |-> err])

Raised == [raised |-> TRUE, val |-> None]

Returned(v) == [raised |-> FALSE, val |-> v]

\* What the try block ends with: "" when it returns the parsed value, else
\* the exception its except block receives.
TryError(out) ==
    IF out.raised THEN "call"
    ELSE LET parsed == JsonLoads(CleanMarkdown(Strip(out.text)))
         IN  IF ~parsed.ok THEN "json"
             ELSE IF parsed.val.k # "map" THEN "attr"
             ELSE ""

\* Whether model.generate_content(prompt) is reached at all.
CallsModel(docs) == ~PrintRaises(all_prescriptions(docs))

\* A variant with model.generate_content(prompt) outside the try block, so
\* that a raising call propagates to the caller.
generate_call_outside_try(docs, out) ==
    IF PrintRaises(all_prescriptions(docs)) THEN Raised
    ELSE IF out.raised THEN Raised
    ELSE IF TryError(out) = ""
    THEN Returned(JsonLoads(CleanMarkdown(Strip(out.text))).val)
    ELSE IF FallbackRaises(docs) THEN Raised
    ELSE Returned(Fallback(docs, TryError(out)))

\* generate_comprehensive_timeline(documents, patient_info), with out the
\* outcome of model.generate_content(prompt).
generate_comprehensive_timeline(docs, out) ==
    IF PrintRaises(all_prescriptions(docs)) THEN Raised
    ELSE IF TryError(out) = ""
    THEN Returned(JsonLoads(CleanMarkdown(Strip(out.text))).val)
    ELSE IF FallbackRaises(docs) THEN Raised
    ELSE Returned(Fallback(docs, TryError(out)))

\* ------------------------------------------------------------------ state
VARIABLES
    batches,     \* db.batches, in insertion order
    documents,   \* db.documents, in insertion order
    timelines,   \* db.timelines, in insertion order
    history,     \* db.history, in insertion order
    now,         \* the clock datetime.now() reads
    nreq,        \* number of requests received so far
    limit,       \* number of requests the run serves
    pc,          \* per request in flight: the storage operation it awaits
    req,         \* per request in flight: the handler's local variables
    last,        \* the HTTP response sent last
    gen,         \* GenSpec only: one call of generate_comprehensive_timeline
    tr,          \* TrSpec only: one call of transcribe_audio
    jq,          \* JqSpec only: the JSON-file queue and its handlers
    mq,          \* MqSpec only: the Mongo-backed queue and its handlers
    nt           \* NtSpec only: the notes collection and its readers

vars ==
    <<batches, documents, timelines, history, now, nreq, limit, pc, req, last,
      gen, tr, jq, mq, nt>>

store == <<batches, documents, timelines, history>>

\* The registered patients (db.patients); "PX" is an id no patient has.
Patients == {"P1", "P2"}

PatientIds == Patients \cup {"PX"}

Slots == DOMAIN pc

\* uuid4 identifiers: every draw gives one that no request has drawn before.  NoBatch is the
\* absent batch_id query parameter, UnknownBatch an id no batch has.
NoBatch == <<>>

BatchId(n) == <<"BATCH", n>>

UnknownBatch == <<"BATCH", 0>>

DocId(n) == <<"DOC", n>>

\* A variant of the active-batch filter that leaves pending batches out.
ActiveStatusProcessingOnly == {"processing"}

\* get_active_batch: "status": {"$in": ["pending", "processing"]}
ActiveStatus == {"pending", "processing"}

NoTimeline ==
    [ patient_id |-> "", batch_id |-> NoBatch, generated_at |-> 0,
      total_documents |-> 0, data |-> None ]

NoReq ==
    [ kind |-> "", id |-> 0, pid |-> "", bid |-> NoBatch, ts |-> 0,
      docs |-> <<>>, out |-> NoCall, tdata |-> None, rec |-> NoTimeline ]

NoResp == [kind |-> "", pid |-> "", code |-> 0, batch_id |-> NoBatch]

\* -------------------------------------------------------- MongoService reads
Min(S) == CHOOSE x \in S : \A y \in S : x <= y

\* find_one without a sort: the first match in natural (insertion) order.
HasActive(p) ==
    \E i \in 1..Len(batches) :
        batches[i].patient_id = p /\ batches[i].status \in ActiveStatus

get_active_batch(p) ==
    batches[Min({i \in 1..Len(batches) :
                    batches[i].patient_id = p /\ batches[i].status \in ActiveStatus})]

HasBatch(b) == \E i \in 1..Len(batches) : batches[i].batch_id = b

get_batch(b) ==
    batches[Min({i \in 1..Len(batches) : batches[i].batch_id = b})]

\* sort("uploaded_at", ASCENDING): insertion of d into a sorted list, after
\* the entries that are not later than it.
RECURSIVE InsertByUploadedAt(_, _)
InsertByUploadedAt(sorted, d) ==
    IF sorted = <<>> THEN <<d>>
    ELSE IF Head(sorted).uploaded_at <= d.uploaded_at
    THEN <<Head(sorted)>> \o InsertByUploadedAt(Tail(sorted), d)
    ELSE <<d>> \o sorted

RECURSIVE SortByUploadedAt(_)
SortByUploadedAt(seq) ==
    IF seq = <<>> THEN <<>>
    ELSE InsertByUploadedAt(SortByUploadedAt(SubSeq(seq, 1, Len(seq) - 1)),
                            seq[Len(seq)])

\* A variant whose query lost its batch_id filter.
get_batch_documents_unfiltered(b) == SortByUploadedAt(documents)

IsInBatch(d, b) == d.batch_id = b

get_batch_documents(b) ==
    SortByUploadedAt(SelectSeq(documents, LAMBDA d : IsInBatch(d, b)))

\* find_one(sort generated_at DESCENDING): the patient's latest record, or
\* None.
PatientTimelines(p) == {i \in 1..Len(timelines) : timelines[i].patient_id = p}

get_patient_timeline(p) ==
    IF PatientTimelines(p) = {} THEN NoTimeline
    ELSE timelines[CHOOSE i \in PatientTimelines(p) :
                     \A j \in PatientTimelines(p) :
                        timelines[j].generated_at <= timelines[i].generated_at]

\* ------------------------------------------------------- MongoService writes
NewBatch(b, p) ==
    [batch_id |-> b, patient_id |-> p, document_ids |-> <<>>, status |-> "pending"]

create_batch(b, p) == Append(batches, NewBatch(b, p))

\* update_one({"batch_id": b}, {"$push": ...}): the first match is updated,
\* no match is no error.
add_document_to_batch(b, d) ==
    IF HasBatch(b)
    THEN LET i == Min({j \in 1..Len(batches) : batches[j].batch_id = b})
         IN  [batches EXCEPT ![i].document_ids = Append(@, d)]
    ELSE batches

update_batch_status(b, status) ==
    IF HasBatch(b)
    THEN LET i == Min({j \in 1..Len(batches) : batches[j].batch_id = b})
         IN  [batches EXCEPT ![i].status = status]
    ELSE batches

NewDocument(d, p, b, t) ==
    [ document_id |-> d, patient_id |-> p, batch_id |-> b,
      status |-> "processing", uploaded_at |-> t, extracted_data |-> None ]

save_document(doc) == Append(documents, doc)

\* extracted_data is written only when the argument is not None.
update_document_status(d, status, data) ==
    [i \in 1..Len(documents) |->
        IF documents[i].document_id = d
           /\ \A j \in 1..(i - 1) : documents[j].document_id # d
        THEN [documents[i] EXCEPT
                 !.status = status,
                 !.extracted_data = IF data.k # "none" THEN data ELSE @]
        ELSE documents[i]]

IsOfPatient(t, p) == t.patient_id = p

\* save_timeline, first half: delete_many({"patient_id": ...}).
delete_timelines(p) == SelectSeq(timelines, LAMBDA t : ~IsOfPatient(t, p))

\* save_timeline, second half: insert_one(timeline_data).
insert_timeline(rec) == Append(timelines, rec)

\* {"patient_id": ..., "batch_id": ..., "generated_at": ...,
\*  "total_documents": ..., **timeline_data}: a key of timeline_data replaces
\* the handler's value of the same name.
TimelineRecord(p, b, t, n, td) ==
    [ patient_id |-> Get(td, "patient_id", p),
      batch_id |-> Get(td, "batch_id", b),
      generated_at |-> t,
      total_documents |-> n,
      data |-> td ]

HistoryEntry(p, b, n, td) ==
    [ patient_id |-> p, batch_id |-> b, document_count |-> n,
      event_count |-> Len(Get(td, "timeline_events", <<>>)) ]

\* --------------------------------------------------------------- requests
\* What the external collaborators may answer.
ExtractOutcomes ==
    { Raises, Returns(<<"rx_good">>), Returns(<<"obj_empty">>),
      Returns(<<"rx_strmeds">>) }

GenerateOutcomes ==
    { Raises, Returns(<<"prose">>),
      Returns(<<FENCE, "json", "NL", "tl_full", "NL", FENCE>>),
      Returns(<<"tl_other">>) }

\* The batch_id query parameters a client may send.
BatchParams == {NoBatch, UnknownBatch} \cup {batches[i].batch_id : i \in 1..Len(batches)}

\* A request is received while the run's budget lasts; it takes the first
\* free slot.
CanBegin(r) ==
    /\ nreq < limit
    /\ pc[r] = "idle"
    /\ \A q \in Slots : q < r => pc[q] # "idle"

Max(S) == CHOOSE x \in S : \A y \in S : y <= x

\* uuid.uuid4(): a number above those of all identifiers in the store and in
\* the hands of requests in flight.
FreshId ==
    1 + Max({0} \cup {batches[i].batch_id[2] : i \in 1..Len(batches)}
                \cup {documents[i].document_id[2] : i \in 1..Len(documents)}
                \cup {req[q].id : q \in Slots})

NewReq(kind, p, b) ==
    [NoReq EXCEPT !.kind = kind, !.id = FreshId, !.pid = p, !.bid = b]

\* The handler goes on to await its next storage operation.
Goto(r, label, rq) ==
    /\ pc' = [pc EXCEPT ![r] = label]
    /\ req' = [req EXCEPT ![r] = rq]
    /\ UNCHANGED last

\* The handler returns or raises HTTPException: its locals are gone.
Respond(r, rq, code, b) ==
    /\ pc' = [pc EXCEPT ![r] = "idle"]
    /\ req' = [req EXCEPT ![r] = NoReq]
    /\ last' = [kind |-> rq.kind, pid |-> rq.pid, code |-> code, batch_id |-> b]

\* ---- POST /documents/{patient_id}/start-batch
StartBatchBegin(r) ==
    /\ CanBegin(r)
    /\ \E p \in PatientIds :
        IF p \notin Patients
        THEN Respond(r, NewReq("start", p, NoBatch), 404, NoBatch)
        ELSE Goto(r, "sb_active", NewReq("start", p, NoBatch))
    /\ nreq' = nreq + 1
    /\ UNCHANGED <<store, now, limit, gen, tr, jq, mq, nt>>

StartBatchActive(r) ==
    /\ pc[r] = "sb_active"
    /\ IF HasActive(req[r].pid)
       THEN Respond(r, req[r], 200, get_active_batch(req[r].pid).batch_id)
       ELSE Goto(r, "sb_create", [req[r] EXCEPT !.bid = BatchId(req[r].id)])
    /\ UNCHANGED <<store, now, nreq, limit, gen, tr, jq, mq, nt>>

StartBatchCreate(r) ==
    /\ pc[r] = "sb_create"
    /\ batches' = create_batch(req[r].bid, req[r].pid)
    /\ Respond(r, req[r], 200, req[r].bid)
    /\ UNCHANGED <<documents, timelines, history, now, nreq, limit, gen, tr, jq, mq, nt>>

\* ---- POST /documents/{patient_id}/upload
\* "Validate file type"; a valid file is then read (await file.read()).
ValidateFile(r, rq) ==
    \E valid \in BOOLEAN :
        IF valid THEN Goto(r, "u_read", rq)
        ELSE Respond(r, rq, 400, NoBatch)

UploadBegin(r) ==
    /\ CanBegin(r)
    /\ \E p \in PatientIds, b \in BatchParams :
        IF p \notin Patients
        THEN Respond(r, NewReq("upload", p, NoBatch), 404, NoBatch)
        ELSE IF b = NoBatch
        THEN Goto(r, "u_active", NewReq("upload", p, NoBatch))
        ELSE ValidateFile(r, NewReq("upload", p, b))
    /\ nreq' = nreq + 1
    /\ UNCHANGED <<store, now, limit, gen, tr, jq, mq, nt>>

UploadActive(r) ==
    /\ pc[r] = "u_active"
    /\ IF HasActive(req[r].pid)
       THEN ValidateFile(r, [req[r] EXCEPT !.bid = get_active_batch(req[r].pid).batch_id])
       ELSE Goto(r, "u_create", [req[r] EXCEPT !.bid = BatchId(req[r].id)])
    /\ UNCHANGED <<store, now, nreq, limit, gen, tr, jq, mq, nt>>

UploadCreate(r) ==
    /\ pc[r] = "u_create"
    /\ batches' = create_batch(req[r].bid, req[r].pid)
    /\ ValidateFile(r, req[r])
    /\ UNCHANGED <<documents, timelines, history, now, nreq, limit, gen, tr, jq, mq, nt>>

\* The file is on disk; "Create document record" reads the clock.
UploadRead(r) ==
    /\ pc[r] = "u_read"
    /\ Goto(r, "u_save", [req[r] EXCEPT !.ts = now])
    /\ now' = now + 1
    /\ UNCHANGED <<store, nreq, limit, gen, tr, jq, mq, nt>>

UploadSave(r) ==
    /\ pc[r] = "u_save"
    /\ documents' = save_document(NewDocument(DocId(req[r].id), req[r].pid, req[r].bid, req[r].ts))
    /\ Goto(r, "u_attach", req[r])
    /\ UNCHANGED <<batches, timelines, history, now, nreq, limit, gen, tr, jq, mq, nt>>

\* add_document_to_batch takes effect.  extract_prescription then runs to
\* its end (it awaits nothing) and update_document_status(document_id,
\* "completed", data) is awaited; the outcome of the extraction shows in the
\* store only when that update takes effect.
UploadAttach(r) ==
    /\ pc[r] = "u_attach"
    /\ batches' = add_document_to_batch(req[r].bid, DocId(req[r].id))
    /\ Goto(r, "u_status", req[r])
    /\ UNCHANGED <<documents, timelines, history, now, nreq, limit, gen, tr, jq, mq, nt>>

\* update_document_status takes effect, then "Get updated batch info":
\* batch.get(...) on None raises AttributeError, which the handler turns into
\* HTTP 500.  (Whether a batch has the id does not change while the request
\* is in flight, so the read is taken in the same step.)
UploadStatus(r) ==
    /\ pc[r] = "u_status"
    /\ \E out \in ExtractOutcomes :
        documents' = update_document_status(DocId(req[r].id), "completed",
                                            extract_prescription(out))
    /\ IF HasBatch(req[r].bid)
       THEN Respond(r, req[r], 200, req[r].bid)
       ELSE Respond(r, req[r], 500, NoBatch)
    /\ UNCHANGED <<batches, timelines, history, now, nreq, limit, gen, tr, jq, mq, nt>>

\* ---- POST /documents/{patient_id}/complete-batch
CompleteBegin(r) ==
    /\ CanBegin(r)
    /\ \E p \in PatientIds, b \in BatchParams :
        IF p \notin Patients
        THEN Respond(r, NewReq("complete", p, NoBatch), 404, NoBatch)
        ELSE Goto(r, "c_getbatch", NewReq("complete", p, b))
    /\ nreq' = nreq + 1
    /\ UNCHANGED <<store, now, limit, gen, tr, jq, mq, nt>>

\* "Get batch": the patient's active batch, or the batch the parameter names.
CompleteGetBatch(r) ==
    /\ pc[r] = "c_getbatch"
    /\ IF req[r].bid = NoBatch
       THEN IF HasActive(req[r].pid)
            THEN Goto(r, "c_docs", [req[r] EXCEPT !.bid = get_active_batch(req[r].pid).batch_id])
            ELSE Respond(r, req[r], 404, NoBatch)
       ELSE IF HasBatch(req[r].bid)
            THEN Goto(r, "c_docs", req[r])
            ELSE Respond(r, req[r], 404, NoBatch)
    /\ UNCHANGED <<store, now, nreq, limit, gen, tr, jq, mq, nt>>

\* "Get all documents in batch"; none: HTTPException 400, re-raised as it is.
CompleteDocs(r) ==
    /\ pc[r] = "c_docs"
    /\ IF get_batch_documents(req[r].bid) = <<>>
       THEN Respond(r, req[r], 400, NoBatch)
       ELSE Goto(r, "c_processing", [req[r] EXCEPT !.docs = get_batch_documents(req[r].bid)])
    /\ UNCHANGED <<store, now, nreq, limit, gen, tr, jq, mq, nt>>

\* update_batch_status(batch_id, "processing") takes effect;
\* generate_comprehensive_timeline then runs to its end.  It raises: the
\* except block awaits update_batch_status(batch_id, "failed").  It returns:
\* the timeline record is built and save_timeline is awaited.
CompleteProcessing(r) ==
    /\ pc[r] = "c_processing"
    /\ batches' = update_batch_status(req[r].bid, "processing")
    /\ \E out \in GenerateOutcomes :
        LET res == generate_comprehensive_timeline(req[r].docs, out)
            made == IF CallsModel(req[r].docs) THEN out ELSE NoCall
        IN  IF res.raised
            THEN /\ Goto(r, "c_failed", [req[r] EXCEPT !.out = made])
                 /\ now' = now
            ELSE /\ Goto(r, "c_delete",
                         [req[r] EXCEPT
                             !.out = made,
                             !.tdata = res.val,
                             !.rec = TimelineRecord(req[r].pid, req[r].bid, now,
                                                    Len(req[r].docs), res.val)])
                 /\ now' = now + 1
    /\ UNCHANGED <<documents, timelines, history, nreq, limit, gen, tr, jq, mq, nt>>

CompleteDelete(r) ==
    /\ pc[r] = "c_delete"
    /\ timelines' = delete_timelines(req[r].rec.patient_id)
    /\ Goto(r, "c_insert", req[r])
    /\ UNCHANGED <<batches, documents, history, now, nreq, limit, gen, tr, jq, mq, nt>>

CompleteInsert(r) ==
    /\ pc[r] = "c_insert"
    /\ timelines' = insert_timeline(req[r].rec)
    /\ Goto(r, "c_history", req[r])
    /\ UNCHANGED <<batches, documents, history, now, nreq, limit, gen, tr, jq, mq, nt>>

\* mongodb_storage.add_history
CompleteHistory(r) ==
    /\ pc[r] = "c_history"
    /\ history' = Append(history, HistoryEntry(req[r].pid, req[r].bid,
                                               Len(req[r].docs), req[r].tdata))
    /\ Goto(r, "c_completed", req[r])
    /\ UNCHANGED <<batches, documents, timelines, now, nreq, limit, gen, tr, jq, mq, nt>>

\* "Mark batch as completed", then the 200 response.
CompleteCompleted(r) ==
    /\ pc[r] = "c_completed"
    /\ batches' = update_batch_status(req[r].bid, "completed")
    /\ Respond(r, req[r], 200, req[r].bid)
    /\ UNCHANGED <<documents, timelines, history, now, nreq, limit, gen, tr, jq, mq, nt>>

\* except Exception: the batch is marked failed, then HTTP 500.
CompleteFailed(r) ==
    /\ pc[r] = "c_failed"
    /\ batches' = update_batch_status(req[r].bid, "failed")
    /\ Respond(r, req[r], 500, NoBatch)
    /\ UNCHANGED <<documents, timelines, history, now, nreq, limit, gen, tr, jq, mq, nt>>

\* A storage operation awaited inside the try block of complete-batch raises
\* (connection lost, write refused) without taking effect: update_batch_status
\* to processing or completed, delete_many or insert_one of save_timeline,
\* add_history.  The except block goes on to mark the batch failed.
CompleteStorageFails(r) ==
    /\ pc[r] \in {"c_processing", "c_delete", "c_insert", "c_history", "c_completed"}
    /\ Goto(r, "c_failed", req[r])
    /\ UNCHANGED <<store, now, nreq, limit, gen, tr, jq, mq, nt>>

\* ---------------------------------------------------------- specifications
\* The parts of the system a specification leaves out stay switched off.
NoTr == [pc |-> "off", elapsed_time |-> 0, polls |-> 0, job_status |-> "", result |-> ""]

NoJq == [pc |-> "off", queue |-> <<>>, n |-> 0, th |-> <<>>,
         last |-> [kind |-> "", pid |-> "", code |-> 0]]

NoMq == [pc |-> "off", patients |-> <<>>, queue |-> <<>>, n |-> 0, nid |-> 0,
         npid |-> 0, th |-> <<>>, last |-> [kind |-> "", code |-> 0]]

NoNt == [pc |-> "off", notes |-> <<>>, n |-> 0,
         last |-> [kind |-> "", code |-> 0, pid |-> "", note |-> 0]]

NoGen == [pc |-> "off", docs |-> <<>>, out |-> Raises, res |-> Raised]

InitStore ==
    /\ batches = <<>>
    /\ documents = <<>>
    /\ timelines = <<>>
    /\ history = <<>>
    /\ now = 1

InitRequests(n) ==
    /\ nreq = 0
    /\ limit = n
    /\ pc = [r \in 1..MaxConc |-> "idle"]
    /\ req = [r \in 1..MaxConc |-> NoReq]
    /\ last = NoResp

\* Requests arrive at any time and interleave at every await.
Init ==
    /\ InitStore /\ InitRequests(NumReq)
    /\ gen = NoGen /\ tr = NoTr /\ jq = NoJq /\ mq = NoMq /\ nt = NoNt

Next ==
    \/ \E r \in Slots : StartBatchBegin(r)
    \/ \E r \in Slots : StartBatchActive(r)
    \/ \E r \in Slots : StartBatchCreate(r)
    \/ \E r \in Slots : UploadBegin(r)
    \/ \E r \in Slots : UploadActive(r)
    \/ \E r \in Slots : UploadCreate(r)
    \/ \E r \in Slots : UploadRead(r)
    \/ \E r \in Slots : UploadSave(r)
    \/ \E r \in Slots : UploadAttach(r)
    \/ \E r \in Slots : UploadStatus(r)
    \/ \E r \in Slots : CompleteBegin(r)
    \/ \E r \in Slots : CompleteGetBatch(r)
    \/ \E r \in Slots : CompleteDocs(r)
    \/ \E r \in Slots : CompleteProcessing(r)
    \/ \E r \in Slots : CompleteDelete(r)
    \/ \E r \in Slots : CompleteInsert(r)
    \/ \E r \in Slots : CompleteHistory(r)
    \/ \E r \in Slots : CompleteCompleted(r)
    \/ \E r \in Slots : CompleteFailed(r)

Spec == Init /\ [][Next]_vars

\* Requests served one after another: a request steps only when no other
\* request is in flight.
Alone(r) == \A q \in Slots \ {r} : pc[q] = "idle"

SeqInit ==
    /\ InitStore /\ InitRequests(SeqReq)
    /\ gen = NoGen /\ tr = NoTr /\ jq = NoJq /\ mq = NoMq /\ nt = NoNt

SeqNext ==
    \/ \E r \in Slots : Alone(r) /\ StartBatchBegin(r)
    \/ \E r \in Slots : Alone(r) /\ StartBatchActive(r)
    \/ \E r \in Slots : Alone(r) /\ StartBatchCreate(r)
    \/ \E r \in Slots : Alone(r) /\ UploadBegin(r)
    \/ \E r \in Slots : Alone(r) /\ UploadActive(r)
    \/ \E r \in Slots : Alone(r) /\ UploadCreate(r)
    \/ \E r \in Slots : Alone(r) /\ UploadRead(r)
    \/ \E r \in Slots : Alone(r) /\ UploadSave(r)
    \/ \E r \in Slots : Alone(r) /\ UploadAttach(r)
    \/ \E r \in Slots : Alone(r) /\ UploadStatus(r)
    \/ \E r \in Slots : Alone(r) /\ CompleteBegin(r)
    \/ \E r \in Slots : Alone(r) /\ CompleteGetBatch(r)
    \/ \E r \in Slots : Alone(r) /\ CompleteDocs(r)
    \/ \E r \in Slots : Alone(r) /\ CompleteProcessing(r)
    \/ \E r \in Slots : Alone(r) /\ CompleteDelete(r)
    \/ \E r \in Slots : Alone(r) /\ CompleteInsert(r)
    \/ \E r \in Slots : Alone(r) /\ CompleteHistory(r)
    \/ \E r \in Slots : Alone(r) /\ CompleteCompleted(r)
    \/ \E r \in Slots : Alone(r) /\ CompleteFailed(r)

SeqSpec == SeqInit /\ [][SeqNext]_vars

\* One call of generate_comprehensive_timeline on any document list and any
\* outcome of the text-generation call.
\* Requests served one at a time over a storage that may fail.
FaultNext ==
    \/ SeqNext
    \/ \E r \in Slots : Alone(r) /\ CompleteStorageFails(r)

FaultSpec == SeqInit /\ [][FaultNext]_vars

GenDoc(status, data) ==
    [NewDocument(DocId(0), "P1", BatchId(0), 0) EXCEPT
        !.status = status, !.extracted_data = data]

GenDocs ==
    { GenDoc("completed", RxGood), GenDoc("failed", None),
      GenDoc("completed", EmptyDict), GenDoc("completed", RxStrMeds),
      GenDoc("completed", List) }

GenDocLists == UNION {[1..n -> GenDocs] : n \in 0..MaxGenDocs}

GenOutcomes ==
    { Raises, Returns(<<"prose">>), Returns(<<"obj_empty">>), Returns(<<"arr">>),
      Returns(<<"tl_full">>), Returns(<<"tl_other">>),
      Returns(<<FENCE, "json", "NL", "tl_full", "NL", FENCE>>),
      Returns(<<"NL", FENCE, "NL", "tl_full", "NL", FENCE, "NL">>),
      Returns(<<FENCE, "json", "NL", "prose", "NL", FENCE>>),
      Returns(<<FENCE, "NL", "tl_other", "NL", FENCE>>),
      Returns(TlFencedText),
      Returns(<<FENCE, "json", "NL">> \o TlFencedText \o <<"NL", FENCE>>) }

GenInit ==
    /\ InitStore
    /\ InitRequests(0)
    /\ \E docs \in GenDocLists, out \in GenOutcomes :
        gen = [pc |-> "ready", docs |-> docs, out |-> out, res |-> Raised]
    /\ tr = NoTr /\ jq = NoJq /\ mq = NoMq /\ nt = NoNt

GenCall ==
    /\ gen.pc = "ready"
    /\ gen' = [gen EXCEPT !.pc = "done",
                          !.res = generate_comprehensive_timeline(gen.docs, gen.out)]
    /\ UNCHANGED <<store, now, nreq, limit, pc, req, last, tr, jq, mq, nt>>

GenNext == GenCall

GenSpec == GenInit /\ [][GenNext]_vars

\* ----------------------------------------------------------- transcription
\* transcribe_audio(bucket_name, file_key) of the Lambda handler.
max_wait_time == 300

wait_interval == 5

WithinBudgetInclusive(elapsed_time) == elapsed_time <= max_wait_time

\* while elapsed_time < max_wait_time
WithinBudget(elapsed_time) == elapsed_time < max_wait_time

\* What get_transcription_job may answer; "raise" is the client raising.
PollOutcomes == {"COMPLETED", "FAILED", "IN_PROGRESS", "QUEUED", "raise"}

TrDone(t, result) == [t EXCEPT !.pc = "done", !.result = result]

\* The head of the while loop; leaving the loop raises the timeout.
LoopHead(t) ==
    IF WithinBudget(t.elapsed_time)
    THEN [t EXCEPT !.pc = "poll"]
    ELSE TrDone(t, "raised: Transcription timed out")

\* transcribe_client.start_transcription_job(...), inside the try block.
TrStart ==
    /\ tr.pc = "start"
    /\ \E ok \in BOOLEAN :
        tr' = IF ok THEN LoopHead(tr) ELSE TrDone(tr, "raised: client error")
    /\ UNCHANGED <<store, now, nreq, limit, pc, req, last, gen, jq, mq, nt>>

\* One round of the loop up to its sleep: get_transcription_job and the
\* branches on TranscriptionJobStatus.
TrPoll ==
    /\ tr.pc = "poll"
    /\ \E o \in PollOutcomes :
        LET t == [tr EXCEPT !.polls = @ + 1,
                            !.job_status = IF o = "raise" THEN @ ELSE o]
        IN  tr' = CASE o = "raise" -> TrDone(t, "raised: client error")
                    [] o = "COMPLETED" -> [t EXCEPT !.pc = "fetch"]
                    [] o = "FAILED" -> TrDone(t, "raised: Transcription failed")
                    [] OTHER -> [t EXCEPT !.pc = "sleep"]
    /\ UNCHANGED <<store, now, nreq, limit, pc, req, last, gen, jq, mq, nt>>

\* "Download transcript JSON" and "Extract just the text"; urlopen, json.loads
\* or the indexing may raise.
TrFetch ==
    /\ tr.pc = "fetch"
    /\ \E ok \in BOOLEAN :
        tr' = TrDone(tr, IF ok THEN "transcript" ELSE "raised: download error")
    /\ UNCHANGED <<store, now, nreq, limit, pc, req, last, gen, jq, mq, nt>>

\* time.sleep(wait_interval); elapsed_time += wait_interval
TrSleep ==
    /\ tr.pc = "sleep"
    /\ tr' = LoopHead([tr EXCEPT !.elapsed_time = @ + wait_interval])
    /\ UNCHANGED <<store, now, nreq, limit, pc, req, last, gen, jq, mq, nt>>

TrInit ==
    /\ InitStore /\ InitRequests(0)
    /\ gen = NoGen /\ jq = NoJq /\ mq = NoMq /\ nt = NoNt
    /\ tr = [NoTr EXCEPT !.pc = "start"]

TrNext == TrStart \/ TrPoll \/ TrFetch \/ TrSleep

\* The function is sequential code: as long as it has not returned or raised
\* it takes its next step (the client calls and time.sleep return).
TrSpec == TrInit /\ [][TrNext]_vars /\ WF_vars(TrNext)

\* ------------------------------------------------------- JSON-file queue
\* routes/queue.py over load_json / save_json.  The handlers are plain def
\* functions, which the server runs in worker threads: a thread may be
\* preempted between its load_json and its save_json.
JqThreads == 1..JqConc

JqIdle == [pc |-> "idle", kind |-> "", pid |-> "", data |-> <<>>]

\* queue_id = Q_<uuid>: an id no entry written or about to be written has.
JqFreshId ==
    1 + Max({0} \cup {jq.queue[i].queue_id : i \in 1..Len(jq.queue)}
                \cup UNION {{jq.th[t].data[i].queue_id : i \in 1..Len(jq.th[t].data)} :
                               t \in DOMAIN jq.th})

JqQueueIds == {0} \cup {jq.queue[i].queue_id : i \in 1..Len(jq.queue)}

AlreadyInQueueWaitingOnly(queue, p) ==
    \E i \in 1..Len(queue) :
        queue[i].patient_id = p /\ queue[i].status \in {"waiting"}

\* "Check if already in queue"
AlreadyInQueue(queue, p) ==
    \E i \in 1..Len(queue) :
        queue[i].patient_id = p /\ queue[i].status \in {"waiting", "in_progress"}

\* next((q for q in queue if q['queue_id'] == queue_id), None) found, and
\* entry['status'] = status
JqHasEntry(queue, qid) == \E i \in 1..Len(queue) : queue[i].queue_id = qid

JqSetStatus(queue, qid, status) ==
    LET i == Min({j \in 1..Len(queue) : queue[j].queue_id = qid})
    IN  [queue EXCEPT ![i].status = status]

JqRespond(kind, p, code) ==
    jq' = [jq EXCEPT !.n = @ + 1, !.last = [kind |-> kind, pid |-> p, code |-> code]]

JqGoSave(t, kind, p, data) ==
    jq' = [jq EXCEPT !.n = @ + 1,
                     !.th[t] = [pc |-> "save", kind |-> kind, pid |-> p, data |-> data]]

JqCanBegin(t) == jq.pc = "on" /\ jq.n < JqReq /\ jq.th[t].pc = "idle"

\* POST /queue/add up to save_json.
JqAdd(t) ==
    /\ JqCanBegin(t)
    /\ \E p \in PatientIds :
        IF p \notin Patients THEN JqRespond("add", p, 404)
        ELSE IF AlreadyInQueue(jq.queue, p) THEN JqRespond("add", p, 400)
        ELSE JqGoSave(t, "add", p,
                      Append(jq.queue, [queue_id |-> JqFreshId, patient_id |-> p,
                                        status |-> "waiting"]))
    /\ UNCHANGED <<store, now, nreq, limit, pc, req, last, gen, tr, mq, nt>>

\* POST /queue/{queue_id}/start up to save_json.
JqStart(t) ==
    /\ JqCanBegin(t)
    /\ \E qid \in JqQueueIds :
        IF ~JqHasEntry(jq.queue, qid) THEN JqRespond("start", "", 404)
        ELSE JqGoSave(t, "start", "", JqSetStatus(jq.queue, qid, "in_progress"))
    /\ UNCHANGED <<store, now, nreq, limit, pc, req, last, gen, tr, mq, nt>>

\* POST /queue/{queue_id}/complete up to save_json.
JqComplete(t) ==
    /\ JqCanBegin(t)
    /\ \E qid \in JqQueueIds :
        IF ~JqHasEntry(jq.queue, qid) THEN JqRespond("complete", "", 404)
        ELSE JqGoSave(t, "complete", "", JqSetStatus(jq.queue, qid, "completed"))
    /\ UNCHANGED <<store, now, nreq, limit, pc, req, last, gen, tr, mq, nt>>

\* save_json(QUEUE_FILE, queue) and the 200 response.
JqSave(t) ==
    /\ jq.pc = "on"
    /\ jq.th[t].pc = "save"
    /\ jq' = [jq EXCEPT !.queue = jq.th[t].data,
                        !.th[t] = JqIdle,
                        !.last = [kind |-> jq.th[t].kind, pid |-> jq.th[t].pid,
                                  code |-> 200]]
    /\ UNCHANGED <<store, now, nreq, limit, pc, req, last, gen, tr, mq, nt>>

JqInit ==
    /\ InitStore /\ InitRequests(0)
    /\ gen = NoGen /\ tr = NoTr /\ mq = NoMq /\ nt = NoNt
    /\ jq = [NoJq EXCEPT !.pc = "on", !.th = [t \in JqThreads |-> JqIdle]]

JqNext ==
    \/ \E t \in JqThreads : JqAdd(t)
    \/ \E t \in JqThreads : JqStart(t)
    \/ \E t \in JqThreads : JqComplete(t)
    \/ \E t \in JqThreads : JqSave(t)

JqSpec == JqInit /\ [][JqNext]_vars

\* ----------------------------------------------------- Mongo-backed queue
\* app/routes/queue.py over MongoDBStorage (db.queue).  The handlers are
\* coroutines: a step is one storage operation taking effect together with
\* the code up to the next await.  The GET routes write nothing.
MqThreads == 1..MqConc

MqIdle == [pc |-> "idle", kind |-> "", pid |-> "", qid |-> 0, uhid |-> ""]

\* The UHIDs a client may send: "U1" and "U2" are those of the patients
\* registered before the first request, "U3" is nobody's yet.
Uhids == {"U1", "U2", "U3"}

\* patient_id = "PAT_" + uuid4: the n-th draw gives an id no earlier draw gave.
PatId(n) == <<"PAT_1", "PAT_2", "PAT_3", "PAT_4", "PAT_5", "PAT_6">>[n]

\* get_patient_by_uhid: find_one({"uhid": uhid})
get_patient_by_uhid(u) ==
    SelectSeq(mq.patients, LAMBDA rec : rec.uhid = u)

\* The queue_id path parameters a client may send; 0 names no entry.
MqQueueIds == {0} \cup {mq.queue[i].queue_id : i \in 1..Len(mq.queue)}

\* get_queue_by_status(status)
get_queue_by_status(status) ==
    SelectSeq(mq.queue, LAMBDA q : q.status = status)

MqHasEntry(qid) == \E i \in 1..Len(mq.queue) : mq.queue[i].queue_id = qid

\* update_queue_status: find_one_and_update({"queue_id": queue_id},
\* {"$set": {"status": status, ...}}), whatever the entry's status is.
update_queue_status(qid, status) ==
    IF MqHasEntry(qid)
    THEN LET i == Min({j \in 1..Len(mq.queue) : mq.queue[j].queue_id = qid})
         IN  [mq.queue EXCEPT ![i].status = status]
    ELSE mq.queue

\* add_to_queue: "Check if already in queue"
MqExisting(p) ==
    \E i \in 1..Len(mq.queue) :
        mq.queue[i].patient_id = p /\ mq.queue[i].status # "completed"

MqCanBegin(t) == mq.pc = "on" /\ mq.n < MqReq /\ mq.th[t].pc = "idle"

MqReply(m, t, kind, code) ==
    [m EXCEPT !.th[t] = MqIdle, !.last = [kind |-> kind, code |-> code]]

\* A handler that consists of one update_queue_status call: the entry is
\* updated and returned (200), or None is returned (404).
MqUpdateOnce(t, qid, kind, status) ==
    MqReply([mq EXCEPT !.n = @ + 1, !.queue = update_queue_status(qid, status)],
            t, kind, IF MqHasEntry(qid) THEN 200 ELSE 404)

\* POST /queue: get_patient, for a patient_id a client may send: one of a
\* patient on file, one a registration has returned, or "PX"
MqAddBegin(t) ==
    /\ MqCanBegin(t)
    /\ \E p \in PatientIds \cup {mq.patients[i].patient_id : i \in 1..Len(mq.patients)} :
        mq' = IF \A i \in 1..Len(mq.patients) : mq.patients[i].patient_id # p
              THEN MqReply([mq EXCEPT !.n = @ + 1], t, "add", 404)
              ELSE [mq EXCEPT !.n = @ + 1,
                              !.th[t] = [MqIdle EXCEPT !.pc = "a_queue",
                                                       !.kind = "add", !.pid = p]]
    /\ UNCHANGED <<store, now, nreq, limit, pc, req, last, gen, tr, jq, nt>>

\* POST /queue: get_queue, the duplicate check, the new entry's queue_id
MqAddQueue(t) ==
    /\ mq.pc = "on" /\ mq.th[t].pc = "a_queue"
    /\ mq' = IF MqExisting(mq.th[t].pid)
             THEN MqReply(mq, t, "add", 400)
             ELSE [mq EXCEPT !.nid = @ + 1,
                             !.th[t].pc = "a_insert", !.th[t].qid = mq.nid + 1]
    /\ UNCHANGED <<store, now, nreq, limit, pc, req, last, gen, tr, jq, nt>>

\* POST /queue: add_to_queue (insert_one)
MqAddInsert(t) ==
    /\ mq.pc = "on" /\ mq.th[t].pc = "a_insert"
    /\ mq' = MqReply([mq EXCEPT !.queue =
                         Append(@, [queue_id |-> mq.th[t].qid,
                                    patient_id |-> mq.th[t].pid,
                                    status |-> "waiting"])],
                     t, "add", 200)
    /\ UNCHANGED <<store, now, nreq, limit, pc, req, last, gen, tr, jq, nt>>

\* POST /patients: get_patient_by_uhid, the 409 answer, the new patient_id
MqRegisterBegin(t) ==
    /\ MqCanBegin(t)
    /\ \E u \in Uhids :
        mq' = IF get_patient_by_uhid(u) # <<>>
              THEN MqReply([mq EXCEPT !.n = @ + 1], t, "register", 409)
              ELSE [mq EXCEPT !.n = @ + 1, !.npid = @ + 1,
                              !.th[t] = [MqIdle EXCEPT !.pc = "r_create",
                                                       !.kind = "register",
                                                       !.uhid = u,
                                                       !.pid = PatId(mq.npid + 1)]]
    /\ UNCHANGED <<store, now, nreq, limit, pc, req, last, gen, tr, jq, nt>>

\* POST /patients: create_patient (insert_one under the unique index on
\* uhid: a duplicate key raises, which the handler does not catch), then the
\* new queue_id
MqRegisterCreate(t) ==
    /\ mq.pc = "on" /\ mq.th[t].pc = "r_create"
    /\ mq' = IF get_patient_by_uhid(mq.th[t].uhid) # <<>>
             THEN MqReply(mq, t, "register", 500)
             ELSE [mq EXCEPT !.patients =
                                 Append(@, [patient_id |-> mq.th[t].pid,
                                            uhid |-> mq.th[t].uhid]),
                             !.nid = @ + 1,
                             !.th[t].pc = "r_queue", !.th[t].qid = mq.nid + 1]
    /\ UNCHANGED <<store, now, nreq, limit, pc, req, last, gen, tr, jq, nt>>

\* POST /patients: get_queue, read for the token number only
MqRegisterQueue(t) ==
    /\ mq.pc = "on" /\ mq.th[t].pc = "r_queue"
    /\ mq' = [mq EXCEPT !.th[t].pc = "r_insert"]
    /\ UNCHANGED <<store, now, nreq, limit, pc, req, last, gen, tr, jq, nt>>

\* POST /patients: add_to_queue (insert_one), with no look at the queue
MqRegisterInsert(t) ==
    /\ mq.pc = "on" /\ mq.th[t].pc = "r_insert"
    /\ mq' = MqReply([mq EXCEPT !.queue =
                         Append(@, [queue_id |-> mq.th[t].qid,
                                    patient_id |-> mq.th[t].pid,
                                    status |-> "waiting"])],
                     t, "register", 200)
    /\ UNCHANGED <<store, now, nreq, limit, pc, req, last, gen, tr, jq, nt>>

\* POST /queue/{queue_id}/nurse-complete
MqNurseComplete(t) ==
    /\ MqCanBegin(t)
    /\ \E qid \in MqQueueIds : mq' = MqUpdateOnce(t, qid, "nurse-complete", "nurse_completed")
    /\ UNCHANGED <<store, now, nreq, limit, pc, req, last, gen, tr, jq, nt>>

\* POST /queue/{queue_id}/start: "Check if another consultation is in progress"
MqStartBegin(t) ==
    /\ MqCanBegin(t)
    /\ \E qid \in MqQueueIds :
        mq' = IF get_queue_by_status("in_consultation") # <<>>
              THEN MqReply([mq EXCEPT !.n = @ + 1], t, "start", 400)
              ELSE [mq EXCEPT !.n = @ + 1,
                              !.th[t] = [MqIdle EXCEPT !.pc = "s_update",
                                                       !.kind = "start", !.qid = qid]]
    /\ UNCHANGED <<store, now, nreq, limit, pc, req, last, gen, tr, jq, nt>>

\* POST /queue/{queue_id}/start: "Update status"
MqStartUpdate(t) ==
    /\ mq.pc = "on" /\ mq.th[t].pc = "s_update"
    /\ mq' = MqReply([mq EXCEPT !.queue =
                         update_queue_status(mq.th[t].qid, "in_consultation")],
                     t, "start", IF MqHasEntry(mq.th[t].qid) THEN 200 ELSE 404)
    /\ UNCHANGED <<store, now, nreq, limit, pc, req, last, gen, tr, jq, nt>>

\* POST /queue/{queue_id}/complete
MqComplete(t) ==
    /\ MqCanBegin(t)
    /\ \E qid \in MqQueueIds : mq' = MqUpdateOnce(t, qid, "complete", "completed")
    /\ UNCHANGED <<store, now, nreq, limit, pc, req, last, gen, tr, jq, nt>>

\* POST /queue/{queue_id}/cancel
MqCancel(t) ==
    /\ MqCanBegin(t)
    /\ \E qid \in MqQueueIds : mq' = MqUpdateOnce(t, qid, "cancel", "cancelled")
    /\ UNCHANGED <<store, now, nreq, limit, pc, req, last, gen, tr, jq, nt>>

\* DELETE /queue/cleanup: clear_completed_queue between two get_queue reads.
MqCleanup(t) ==
    /\ MqCanBegin(t)
    /\ mq' = MqReply([mq EXCEPT !.n = @ + 1,
                                !.queue = SelectSeq(@, LAMBDA q : q.status # "completed")],
                     t, "cleanup", 200)
    /\ UNCHANGED <<store, now, nreq, limit, pc, req, last, gen, tr, jq, nt>>

\* db.patients holds one record per patient on file before the first request.
MqInit ==
    /\ InitStore /\ InitRequests(0)
    /\ gen = NoGen /\ tr = NoTr /\ jq = NoJq /\ nt = NoNt
    /\ mq = [NoMq EXCEPT !.pc = "on", !.th = [t \in MqThreads |-> MqIdle],
                        !.patients = << [patient_id |-> "P1", uhid |-> "U1"],
                                        [patient_id |-> "P2", uhid |-> "U2"] >>]

MqNext ==
    \/ \E t \in MqThreads : MqRegisterBegin(t)
    \/ \E t \in MqThreads : MqRegisterCreate(t)
    \/ \E t \in MqThreads : MqRegisterQueue(t)
    \/ \E t \in MqThreads : MqRegisterInsert(t)
    \/ \E t \in MqThreads : MqAddBegin(t)
    \/ \E t \in MqThreads : MqAddQueue(t)
    \/ \E t \in MqThreads : MqAddInsert(t)
    \/ \E t \in MqThreads : MqNurseComplete(t)
    \/ \E t \in MqThreads : MqStartBegin(t)
    \/ \E t \in MqThreads : MqStartUpdate(t)
    \/ \E t \in MqThreads : MqComplete(t)
    \/ \E t \in MqThreads : MqCancel(t)
    \/ \E t \in MqThreads : MqCleanup(t)

MqSpec == MqInit /\ [][MqNext]_vars

\* ------------------------------------------------------------------- notes
\* app/routes/notes.py over MongoDBStorage (db.notes).  A note is its note_id
\* (the order of insertion), patient_id and created_at; created_at values are
\* ISO strings compared as strings, here the integers 1..NtStamps.  The notes
\* of one patient carry distinct created_at values.  A response names the
\* note it carries by its note_id, and "note": None by 0.

\* .sort("created_at", DESCENDING): the newest note first
RECURSIVE SortByCreatedAt(_)
SortByCreatedAt(seq) ==
    IF seq = <<>> THEN <<>>
    ELSE LET sorted == SortByCreatedAt(SubSeq(seq, 1, Len(seq) - 1))
             note == seq[Len(seq)]
             k == Cardinality({i \in 1..Len(sorted) :
                                 sorted[i].created_at >= note.created_at})
         IN  SubSeq(sorted, 1, k) \o <<note>> \o SubSeq(sorted, k + 1, Len(sorted))

\* get_patient_notes: find({"patient_id": p}).sort("created_at", DESCENDING)
get_patient_notes(p) ==
    SortByCreatedAt(SelectSeq(nt.notes, LAMBDA note : note.patient_id = p))

NtReply(kind, code, p, note) ==
    [nt EXCEPT !.n = @ + 1,
               !.last = [kind |-> kind, code |-> code, pid |-> p, note |-> note]]

\* add_note: insert_one of a note with the created_at its caller gave it
add_note ==
    /\ nt.pc = "on" /\ nt.n < NtReq
    /\ \E p \in Patients, ts \in 1..NtStamps :
        /\ \A i \in 1..Len(nt.notes) :
              nt.notes[i].patient_id = p => nt.notes[i].created_at # ts
        /\ nt' = [NtReply("add", 200, p, Len(nt.notes) + 1) EXCEPT !.notes =
                     Append(@, [note_id |-> Len(nt.notes) + 1,
                                patient_id |-> p, created_at |-> ts])]
    /\ UNCHANGED <<store, now, nreq, limit, pc, req, last, gen, tr, jq, mq>>

\* GET /notes/{patient_id}/latest: notes[-1], "Last note in list"
get_latest_note ==
    /\ nt.pc = "on" /\ nt.n < NtReq
    /\ \E p \in PatientIds :
        LET notes == get_patient_notes(p)
        IN  nt' = IF p \notin Patients THEN NtReply("latest", 404, p, 0)
                  ELSE IF notes = <<>> THEN NtReply("latest", 200, p, 0)
                  ELSE NtReply("latest", 200, p, notes[Len(notes)].note_id)
    /\ UNCHANGED <<store, now, nreq, limit, pc, req, last, gen, tr, jq, mq>>

\* GET /summary/{patient_id}: latest_visit is notes[-1]
get_patient_summary ==
    /\ nt.pc = "on" /\ nt.n < NtReq
    /\ \E p \in PatientIds :
        LET notes == get_patient_notes(p)
        IN  nt' = IF p \notin Patients THEN NtReply("summary", 404, p, 0)
                  ELSE IF notes = <<>> THEN NtReply("summary", 200, p, 0)
                  ELSE NtReply("summary", 200, p, notes[Len(notes)].note_id)
    /\ UNCHANGED <<store, now, nreq, limit, pc, req, last, gen, tr, jq, mq>>

NtInit ==
    /\ InitStore /\ InitRequests(0)
    /\ gen = NoGen /\ tr = NoTr /\ jq = NoJq /\ mq = NoMq
    /\ nt = [NoNt EXCEPT !.pc = "on"]

NtNext == add_note \/ get_latest_note \/ get_patient_summary

NtSpec == NtInit /\ [][NtNext]_vars

\* ------------------------------------------------------------------ claims
\* Request r takes a step.
Steps(r) == pc'[r] # pc[r]

\* Request r sends its response in this step.
Responds(r) == pc[r] # "idle" /\ pc'[r] = "idle"

ActiveBatches(p) ==
    {i \in 1..Len(batches) :
        batches[i].patient_id = p /\ batches[i].status \in ActiveStatus}

NoDocumentsIn(b) == \A i \in 1..Len(documents) : documents[i].batch_id # b

BatchHasStatus(bs, b, status) ==
    \E i \in 1..Len(bs) : bs[i].batch_id = b /\ bs[i].status = status

\* C1: under SeqSpec, a start-batch call for an existing patient that comes
\* right after a successful start-batch call for the same patient returns
\* the same batch_id and leaves db.batches as it was (no new batch, the
\* active batch's status and document_ids untouched).
C1_StartBatchIdempotent ==
    [][\A r \in Slots :
          ( /\ req[r].kind = "start"
            /\ Responds(r)
            /\ last.kind = "start" /\ last.code = 200 /\ last.pid = req[r].pid )
          => /\ last'.kind = "start" /\ last'.code = 200
             /\ last'.batch_id = last.batch_id
             /\ batches' = batches]_vars

\* The second of two consecutive start-batch calls for one patient has found
\* the patient and is about to look up the active batch.
C1_Witness ==
    \E r \in Slots :
        /\ pc[r] = "sb_active"
        /\ last.kind = "start" /\ last.code = 200 /\ last.pid = req[r].pid
        /\ BatchHasStatus(batches, last.batch_id, "pending")

\* C2: in every reachable state each patient has at most one batch whose
\* status is pending or processing, whatever the interleaving of start-batch,
\* upload and complete-batch requests.
C2_OneActiveBatchPerPatient ==
    \A p \in Patients : Cardinality(ActiveBatches(p)) <= 1

\* C3: a complete-batch request writes nothing before its document check,
\* and when the batch it resolved has no document it answers HTTP 400 and
\* leaves batches (the status included), documents, timelines and history
\* exactly as they were.
C3_EmptyBatchRejected ==
    [][\A r \in Slots :
          /\ ( /\ req[r].kind = "complete"
               /\ pc[r] \in {"c_getbatch", "c_docs"}
               /\ Steps(r) )
             => UNCHANGED store
          /\ ( /\ pc[r] = "c_docs"
               /\ Steps(r)
               /\ NoDocumentsIn(req[r].bid) )
             => /\ pc'[r] = "idle"
                /\ last' = [kind |-> "complete", pid |-> req[r].pid,
                            code |-> 400, batch_id |-> NoBatch]]_vars

\* A complete-batch request was answered 400 for a batch that exists, is
\* still pending and has no document.
C3_Witness ==
    /\ last.kind = "complete" /\ last.code = 400
    /\ \E i \in 1..Len(batches) :
        /\ batches[i].patient_id = last.pid
        /\ batches[i].status = "pending"
        /\ batches[i].document_ids = <<>>
        /\ NoDocumentsIn(batches[i].batch_id)
    /\ timelines = <<>> /\ history = <<>>

\* C4: under SeqSpec, no step of a complete-batch request for patient P
\* changes the timelines of another patient, and when the request succeeds
\* the store holds exactly one timeline for P, the one this run wrote, which
\* is what get_patient_timeline(P) returns.
C4_OneTimelinePerPatient ==
    [][\A r \in Slots :
          (req[r].kind = "complete" /\ Steps(r))
          => /\ \A p \in Patients \ {req[r].pid} :
                   SelectSeq(timelines', LAMBDA t : IsOfPatient(t, p))
                     = SelectSeq(timelines, LAMBDA t : IsOfPatient(t, p))
             /\ pc[r] = "c_completed"
                => /\ Cardinality(PatientTimelines(req[r].pid)) = 1
                   /\ get_patient_timeline(req[r].pid) = req[r].rec]_vars

TimelineFields ==
    {"timeline_events", "current_medications", "chronic_conditions",
     "allergies", "summary"}

OnSuccessPath(r) ==
    pc[r] \in {"c_delete", "c_insert", "c_history", "c_completed"}

\* The fallback shape: an error marker and empty current_medications,
\* chronic_conditions and allergies.
IsFallback(td) ==
    /\ td.k = "map"
    /\ "error" \in td.keys /\ td.error # ""
    /\ TimelineFields \subseteq td.keys
    /\ td.current_medications = <<>>
    /\ td.chronic_conditions = <<>>
    /\ td.allergies = <<>>

\* What a complete-batch request on the success path does with its result:
\* the record it built carries the result, the insert step persists that
\* record, and the last step marks the batch completed and answers 200.
PersistsAndCompletes(r) ==
    /\ OnSuccessPath(r)
    /\ req[r].rec.data = req[r].tdata
    /\ (pc[r] = "c_insert" /\ Steps(r))
       => timelines' = Append(timelines, req[r].rec)
    /\ (pc[r] = "c_completed" /\ Steps(r))
       => /\ BatchHasStatus(batches', req[r].bid, "completed")
          /\ last' = [kind |-> "complete", pid |-> req[r].pid,
                      code |-> 200, batch_id |-> req[r].bid]

C6_UnparseableFallsBack ==
    [][\A r \in Slots :
          req[r].out = Returns(<<"prose">>)
          => /\ IsFallback(req[r].tdata)
             /\ req[r].tdata.error = "json"
             /\ PersistsAndCompletes(r)]_vars

\* A fallback timeline produced after an unparseable response is stored for
\* a batch that had a document with medications and was completed with 200.
C6_Witness ==
    /\ last.kind = "complete" /\ last.code = 200
    /\ BatchHasStatus(batches, last.batch_id, "completed")
    /\ \E i \in 1..Len(timelines) :
        /\ timelines[i].batch_id = last.batch_id
        /\ timelines[i].data.error = "json"
        /\ timelines[i].data.timeline_events # <<>>
    /\ \E j \in 1..Len(documents) :
        /\ documents[j].batch_id = last.batch_id
        /\ documents[j].extracted_data.medications # <<>>

HasPayload(doc) == doc.extracted_data.k # "none"

PayloadDocs(docs) == SelectSeq(docs, HasPayload)

\* C7: the documents that feed the summarization are exactly those with an
\* extracted payload, in upload order, and a fallback timeline has exactly
\* one event per such document, in the same order.
C7_OneEventPerPayload ==
    gen.pc = "done"
    => /\ all_prescriptions(gen.docs)
            = [i \in 1..Len(PayloadDocs(gen.docs)) |->
                  PayloadDocs(gen.docs)[i].extracted_data]
       /\ (~gen.res.raised /\ "error" \in gen.res.val.keys)
          => Len(gen.res.val.timeline_events) = Len(PayloadDocs(gen.docs))

\* C8: generate_comprehensive_timeline never raises, and what it returns
\* always has timeline_events, current_medications, chronic_conditions,
\* allergies and summary.
C8_AlwaysFiveFields ==
    gen.pc = "done"
    => /\ ~gen.res.raised
       /\ gen.res.val.k = "map"
       /\ TimelineFields \subseteq gen.res.val.keys

AllowedTransitions ==
    { <<"pending", "processing">>, <<"processing", "completed">>,
      <<"processing", "failed">> }

\* C9: a batch's status only ever moves pending -> processing and
\* processing -> completed or failed; a completed or failed batch keeps its
\* status whatever request names it.
C9_StatusTransitions ==
    [][\A i \in 1..Len(batches) :
          \/ batches'[i].status = batches[i].status
          \/ <<batches[i].status, batches'[i].status>> \in AllowedTransitions]_vars

PastBatchResolution(r) ==
    pc[r] \in {"u_read", "u_save", "u_attach", "u_status"}

\* C10: an upload whose batch_id matches no batch is rejected with 404
\* rather than accepted: no upload gets past batch resolution with a
\* batch_id that names no batch, no stored document carries such a batch_id,
\* and no upload is answered 500.
C10_UnknownBatchRejected ==
    /\ \A r \in Slots : PastBatchResolution(r) => HasBatch(req[r].bid)
    /\ \A i \in 1..Len(documents) : HasBatch(documents[i].batch_id)
    /\ last.kind = "upload" => last.code # 500

\* The client raised, or its text is no JSON: extract_prescription failed.
ExtractionFails(out) ==
    out.raised \/ ~JsonLoads(CleanMarkdown(Strip(out.text))).ok

\* C11: when the extraction of an uploaded document fails, the upload leaves
\* the document with status failed and a null payload, and leaves the batch
\* as it was (status unchanged, the document still attached).
C11_FailedExtractionRecorded ==
    [][\A r \in Slots : \A out \in ExtractOutcomes :
          ( /\ pc[r] = "u_status" /\ Steps(r)
            /\ ExtractionFails(out)
            /\ documents' = update_document_status(DocId(req[r].id), "completed",
                                                   extract_prescription(out)) )
          => /\ \A i \in 1..Len(documents') :
                   documents'[i].document_id = DocId(req[r].id)
                   => /\ documents'[i].status = "failed"
                      /\ documents'[i].extracted_data = None
             /\ batches' = batches]_vars

Payloads(docs) == [i \in 1..Len(docs) |-> docs[i].extracted_data]

\* The completed documents of batch b, oldest upload first.
CompletedDocuments(b) ==
    SortByUploadedAt(SelectSeq(documents,
        LAMBDA d : d.batch_id = b /\ d.status = "completed"))

\* C12: the payloads complete-batch sends to the summarizer are exactly the
\* payloads of the batch's completed documents in upload order, an empty-map
\* payload included, and nothing from a document in another status.
C12_CompletedPayloadsSent ==
    [][\A r \in Slots :
          (pc[r] = "c_docs" /\ pc'[r] = "c_processing")
          => all_prescriptions(req'[r].docs)
               = Payloads(CompletedDocuments(req[r].bid))]_vars

DocumentIds(docs) == [i \in 1..Len(docs) |-> docs[i].document_id]

UploadInFlight(b) ==
    \E r \in Slots : req[r].kind = "upload" /\ req[r].bid = b

\* C13: for every batch with no upload in flight, the documents that
\* get_batch_documents returns (sorted by uploaded_at) come in the order of
\* the batch's document_ids list, whatever the interleaving of the uploads
\* that attached them.
C13_SynthesisOrderIsAttachOrder ==
    \A i \in 1..Len(batches) :
        ~UploadInFlight(batches[i].batch_id)
        => DocumentIds(get_batch_documents(batches[i].batch_id))
             = batches[i].document_ids

\* C14: in every reachable state, the await between delete_many and
\* insert_one of two complete-batch requests included, the timeline store
\* holds at most one record per patient.
C14_SaveTimelineAtomic ==
    \A p \in Patients : Cardinality(PatientTimelines(p)) <= 1

\* The texts of JSON objects.
JsonObjectTexts ==
    {<<"obj_empty">>, <<"tl_full">>, <<"tl_other">>, TlFencedText}

\* J in a code fence: fence, optional json tag, newline, J, newline, fence.
Wrap(J, tag) == <<FENCE>> \o tag \o <<"NL">> \o J \o <<"NL", FENCE>>

\* C15: a response that is a JSON object text J wrapped in a code fence,
\* with or without the json tag, gives the result the unwrapped J gives and
\* does not end in the fallback.
C15_FenceStripped ==
    gen.pc = "done"
    => \A J \in JsonObjectTexts, tag \in {<<>>, <<"json">>} :
          gen.out = Returns(Wrap(J, tag))
          => /\ gen.res = generate_comprehensive_timeline(gen.docs, Returns(J))
             /\ ~gen.res.raised => "error" \notin gen.res.val.keys

MaxPolls == max_wait_time \div wait_interval

\* C16: transcribe_audio always terminates.  A poll that reports COMPLETED
\* ends the polling at once and the transcript is fetched and returned (a
\* failing download raises); a poll that reports FAILED raises at once;
\* otherwise the polls come wait_interval seconds apart, there are at most
\* max_wait_time / wait_interval = 60 of them, and after the 60th without a
\* terminal status the function raises 'Transcription timed out'.
C16_PollingTerminates ==
    /\ <>(tr.pc = "done")
    /\ [](tr.polls <= MaxPolls /\ tr.polls <= 60)
    /\ [](tr.pc = "poll" => tr.elapsed_time = wait_interval * tr.polls)
    /\ [](tr.job_status = "COMPLETED"
            => /\ tr.pc \in {"fetch", "done"}
               /\ tr.pc = "done"
                  => tr.result \in {"transcript", "raised: download error"})
    /\ [](tr.job_status = "FAILED"
            => tr.pc = "done" /\ tr.result = "raised: Transcription failed")
    /\ [](tr.result = "transcript" => tr.job_status = "COMPLETED")
    /\ []((tr.pc = "done" /\ tr.result = "raised: Transcription timed out")
            <=> (tr.pc = "done" /\ tr.polls = 60 /\ tr.elapsed_time = max_wait_time
                 /\ tr.job_status \in {"IN_PROGRESS", "QUEUED"}
                 /\ tr.result # "raised: client error"))
    /\ [][tr.pc = "poll" => tr'.polls = tr.polls + 1]_vars

\* The job never reached a terminal status: the 60th poll was made and the
\* function raised the timeout.
C16_Witness ==
    /\ tr.pc = "done" /\ tr.result = "raised: Transcription timed out"
    /\ tr.polls = 60 /\ tr.elapsed_time = 300

\* Thread t takes up a POST /queue/add for registered patient p.
JqAddStep(t, p) ==
    /\ p \in Patients
    /\ jq.pc = "on" /\ jq.th[t].pc = "idle" /\ jq'.n = jq.n + 1
    /\ \/ jq'.th[t].pc = "save" /\ jq'.th[t].kind = "add" /\ jq'.th[t].pid = p
       \/ jq'.th = jq.th /\ jq'.last.kind = "add" /\ jq'.last.pid = p

JqActiveEntry(p) ==
    \E i \in 1..Len(jq.queue) :
        /\ jq.queue[i].patient_id = p
        /\ jq.queue[i].status = "waiting" \/ jq.queue[i].status = "in_progress"

\* C17: in the JSON-file queue, an add for a patient who has an entry in
\* status waiting or in_progress is answered 400 and leaves the queue file
\* unchanged; an add for a patient with no such entry writes the queue with
\* one new waiting entry for the patient appended and is answered 200.
C17_DuplicateAddRejected ==
    [][\A t \in DOMAIN jq.th :
          /\ \A p \in Patients :
                JqAddStep(t, p)
                => IF JqActiveEntry(p)
                   THEN /\ jq'.last = [kind |-> "add", pid |-> p, code |-> 400]
                        /\ jq'.queue = jq.queue /\ jq'.th = jq.th
                   ELSE /\ jq'.th[t].pc = "save"
                        /\ Len(jq'.th[t].data) = Len(jq.queue) + 1
                        /\ SubSeq(jq'.th[t].data, 1, Len(jq.queue)) = jq.queue
                        /\ jq'.th[t].data[Len(jq.queue) + 1].patient_id = p
                        /\ jq'.th[t].data[Len(jq.queue) + 1].status = "waiting"
                        /\ ~JqHasEntry(jq.queue,
                                       jq'.th[t].data[Len(jq.queue) + 1].queue_id)
          /\ (jq.pc = "on" /\ jq.th[t].pc = "save" /\ jq.th[t].kind = "add"
              /\ jq'.th[t].pc = "idle")
             => /\ jq'.queue = jq.th[t].data
                /\ jq'.last = [kind |-> "add", pid |-> jq.th[t].pid, code |-> 200]]_vars

\* A patient whose entry was started (in_progress) was added again and the
\* add was answered 400.
C17_Witness ==
    /\ jq.last = [kind |-> "add", pid |-> "P1", code |-> 400]
    /\ \E i \in 1..Len(jq.queue) :
        jq.queue[i].patient_id = "P1" /\ jq.queue[i].status = "in_progress"
    /\ \A t \in DOMAIN jq.th : jq.th[t].pc = "idle"

\* C18: in the Mongo-backed queue at most one entry has status
\* in_consultation in every reachable state, two interleaved start requests
\* included.
C18_OneInConsultation ==
    Len(get_queue_by_status("in_consultation")) <= 1

\* C19: in the Mongo-backed queue an entry becomes nurse_completed only from
\* waiting and becomes in_consultation only from ready_for_doctor; an entry
\* in any other status is never moved there.
C19_DocumentedEdges ==
    [][\A i \in 1..Len(mq.queue), j \in 1..Len(mq'.queue) :
          ( /\ mq.queue[i].queue_id = mq'.queue[j].queue_id
            /\ mq.queue[i].status # mq'.queue[j].status )
          => /\ mq'.queue[j].status = "nurse_completed"
                => mq.queue[i].status = "waiting"
             /\ mq'.queue[j].status = "in_consultation"
                => mq.queue[i].status = "ready_for_doctor"]_vars

MqQuiescent == mq.pc = "on" /\ \A t \in DOMAIN mq.th : mq.th[t].pc = "idle"

\* C20: an entry set to nurse_completed becomes ready_for_doctor without a
\* further client request: whenever no request is in flight, so that only a
\* new client request could still change the queue, no entry is left in
\* nurse_completed.
C20_ReadyForDoctorFollows ==
    MqQuiescent
    => \A i \in 1..Len(mq.queue) : mq.queue[i].status # "nurse_completed"

\* Thread t answers its request in this step.
MqAnswers(t) == mq.th[t].pc # "idle" /\ mq'.th[t].pc = "idle"

\* Thread t takes the first step of a request in this step.
MqCalls(t) == mq.th[t].pc = "idle" /\ mq'.n = mq.n + 1 /\ mq'.th[t] # mq.th[t]

\* C21: a register_patient call whose UHID is registered when it is made
\* answers 409 and leaves the patient and queue collections as they were; a
\* call whose UHID is not registered when it is made ends with 200, one
\* patient record with that UHID and one waiting queue entry of the new
\* patient added.
C21_RegisterContract ==
    [][\A t \in MqThreads :
        /\ ( MqCalls(t) /\ mq'.th[t].kind = "register" )
           => get_patient_by_uhid(mq'.th[t].uhid) = <<>>
        /\ ( mq.th[t].pc = "idle" /\ mq'.n = mq.n + 1
             /\ mq'.last.kind = "register" /\ mq'.th[t].pc = "idle" )
           => /\ mq'.last.code = 409
              /\ mq'.patients = mq.patients /\ mq'.queue = mq.queue
        /\ ( MqAnswers(t) /\ mq.th[t].kind = "register" )
           => /\ mq'.last.code = 200
              /\ Len(SelectSeq(mq'.patients,
                               LAMBDA rec : rec.uhid = mq.th[t].uhid)) = 1
              /\ Len(SelectSeq(mq'.patients,
                               LAMBDA rec : rec.patient_id = mq.th[t].pid)) = 1
              /\ mq'.queue = Append(mq.queue, [queue_id |-> mq.th[t].qid,
                                               patient_id |-> mq.th[t].pid,
                                               status |-> "waiting"])]_vars

\* The note of patient p with the greatest created_at.
NewestNote(p) ==
    CHOOSE i \in 1..Len(nt.notes) :
        /\ nt.notes[i].patient_id = p
        /\ \A j \in 1..Len(nt.notes) :
              nt.notes[j].patient_id = p
              => nt.notes[j].created_at <= nt.notes[i].created_at

\* C22: when a patient has notes, GET /notes/{patient_id}/latest and
\* latest_visit of GET /summary/{patient_id} return the note with the
\* greatest created_at.
C22_LatestNoteIsNewest ==
    [][\A p \in Patients :
          ( /\ nt'.n = nt.n + 1
            /\ nt'.last.kind \in {"latest", "summary"}
            /\ nt'.last.pid = p
            /\ get_patient_notes(p) # <<>> )
          => nt'.last.note = nt.notes[NewestNote(p)].note_id]_vars

\* Upload q has saved and attached its document to batch b and has not yet
\* stored the outcome of its extraction.
InExtraction(q, b) == pc[q] = "u_status" /\ req[q].bid = b

\* The documents complete-batch request r read hold one that was still in
\* extraction when it was read: status processing, no payload.
ReadInFlight(r) ==
    \E i \in 1..Len(req[r].docs) :
        /\ req[r].docs[i].status = "processing"
        /\ req[r].docs[i].extracted_data.k = "none"

\* C23: a complete-batch request that reads the documents of its batch while
\* an upload to the batch is still in extraction reads that document without
\* a payload and goes on at once; it hands the synthesizer the payloads of
\* the other documents only, the synthesizer's timeline is persisted and the
\* batch ends completed with a 200 response, and the documents it read are
\* never read again.
C23_CompletionSkipsInFlight ==
    [][\A r \in Slots :
        /\ \A q \in Slots :
              ( pc[r] = "c_docs" /\ Steps(r) /\ InExtraction(q, req[r].bid) )
              => /\ pc'[r] = "c_processing"
                 /\ \E i \in 1..Len(req'[r].docs) :
                       /\ req'[r].docs[i].document_id = DocId(req[q].id)
                       /\ req'[r].docs[i].extracted_data.k = "none"
        /\ ( pc[r] = "c_processing" /\ Steps(r) /\ ReadInFlight(r) )
           => /\ pc'[r] = "c_delete"
              /\ all_prescriptions(req[r].docs)
                   = all_prescriptions(SelectSeq(req[r].docs,
                         LAMBDA d : d.status # "processing"))
        /\ ( OnSuccessPath(r) /\ ReadInFlight(r) )
           => /\ PersistsAndCompletes(r)
              /\ (Steps(r) /\ ~Responds(r)) => req'[r].docs = req[r].docs]_vars

\* Complete-batch request r has read the documents of its batch and is at
\* work on it.
Completing(r) ==
    pc[r] \in {"c_processing", "c_delete", "c_insert", "c_history",
               "c_completed", "c_failed"}

\* Another complete-batch request is at work on the batch of request r.
CompletingTogether(r) ==
    /\ Completing(r)
    /\ \E q \in Slots \ {r} : Completing(q) /\ req[q].bid = req[r].bid

\* C24: while two complete-batch requests are at work on the same batch,
\* neither is stopped by the batch's status: each sets the batch to
\* processing and invokes the synthesizer, and each writes the timeline
\* record it built and a history entry for the batch.
C24_DoubleTrigger ==
    [][\A r \in Slots :
        /\ ( CompletingTogether(r) /\ pc[r] = "c_processing" /\ Steps(r) )
           => /\ BatchHasStatus(batches', req[r].bid, "processing")
              /\ pc'[r] = "c_delete"
        /\ ( CompletingTogether(r) /\ pc[r] = "c_insert" /\ Steps(r) )
           => timelines' = Append(timelines, req[r].rec)
        /\ ( CompletingTogether(r) /\ pc[r] = "c_history" /\ Steps(r) )
           => /\ Len(history') = Len(history) + 1
              /\ history'[Len(history')].batch_id = req[r].bid
        /\ ( CompletingTogether(r) /\ Steps(r) )
           => pc[r] # "c_failed"]_vars

\* The documents stored with batch_id b.
DocumentsOf(docs, b) == SelectSeq(docs, LAMBDA d : d.batch_id = b)

\* C25: once a batch is completed or failed, no step adds a document id to
\* its document_ids list and no step stores a document carrying its
\* batch_id.
C25_ClosedBatchFrozen ==
    [][\A i \in 1..Len(batches) :
          batches[i].status \in {"completed", "failed"}
          => /\ batches'[i].document_ids = batches[i].document_ids
             /\ Len(DocumentsOf(documents', batches[i].batch_id))
                  = Len(DocumentsOf(documents, batches[i].batch_id))]_vars

\* The timelines stored for patients other than p.
TimelinesOfOthers(tls, p) == SelectSeq(tls, LAMBDA t : t.patient_id # p)

\* C26: the timeline record a complete-batch request for patient P and
\* batch B builds and saves carries patient_id P and batch_id B whatever the
\* synthesizer returned, and the request's delete and insert leave the
\* timelines of all other patients as they were.
C26_RecordKeepsIdentity ==
    [][\A r \in Slots :
          ( OnSuccessPath(r) /\ Steps(r) )
          => /\ req[r].rec.patient_id = req[r].pid
             /\ req[r].rec.batch_id = req[r].bid
             /\ TimelinesOfOthers(timelines', req[r].pid)
                  = TimelinesOfOthers(timelines, req[r].pid)]_vars

\* C27: every stored document whose batch_id names a batch has that batch's
\* patient_id, and a complete-batch request that synthesizes or saves a
\* timeline for patient P works on a batch of P.
C27_BatchOwnership ==
    /\ \A i \in 1..Len(documents), j \in 1..Len(batches) :
          documents[i].batch_id = batches[j].batch_id
          => documents[i].patient_id = batches[j].patient_id
    /\ \A r \in Slots, j \in 1..Len(batches) :
          ( req[r].kind = "complete" /\ Completing(r)
            /\ batches[j].batch_id = req[r].bid )
          => batches[j].patient_id = req[r].pid

\* Request r enters the except block of complete-batch in this step.
EntersFailure(r) == pc[r] # "c_failed" /\ pc'[r] = "c_failed"

\* C28: a complete-batch request that ends by marking its batch failed has
\* left the timeline store as it found it: when it enters its failure path
\* the store holds no record it built, the exception that sent it there
\* arose before its delete_many took effect, and up to that point none of
\* its steps changed the timeline store.
C28_FailedLeavesTimelines ==
    [][\A r \in Slots :
        /\ EntersFailure(r)
           => /\ \A i \in 1..Len(timelines') : timelines'[i] # req[r].rec
              /\ pc[r] \in {"c_processing", "c_delete"}
              /\ timelines' = timelines
        /\ ( pc[r] \in {"c_getbatch", "c_docs", "c_processing"} /\ Steps(r) )
           => timelines' = timelines]_vars

\* The queue entries of patient p that are not completed.
OpenEntries(p) ==
    SelectSeq(mq.queue, LAMBDA q : q.patient_id = p /\ q.status # "completed")

\* C29: in the Mongo-backed queue every patient has at most one queue entry
\* whose status is not completed, in every state that register, add,
\* nurse-complete, start, complete, cancel and cleanup requests can reach.
C29_OneOpenEntryPerPatient ==
    \A i \in 1..Len(mq.patients) :
        Len(OpenEntries(mq.patients[i].patient_id)) <= 1

====
